---- MODULE Spec2Model ----
(***************************************************************************)
(* A model of one run of the USGS LiDAR command line tool: main() of       *)
(* USGS_LiDAR_CLI_Tool/cli.py together with the functions of download.py   *)
(* and boundaries.py it calls.  The external world (the file system, the   *)
(* catalog of dataset footprints, the PDAL process) is a nondeterministic  *)
(* choice over the outcomes the code distinguishes.                        *)
(***************************************************************************)
EXTENDS Integers, Sequences, FiniteSets, TLC

\* ------------------------------------------------------------------ bounds

\* The largest number of catalog features that intersect the boundary.
MaxDatasets == 2
\* The largest number of settings a user's config file changes.
MaxKeys == 2
\* The largest number of pieces a dataset name is made of.
MaxTokens == 3
\* The largest number of features of a boundary FeatureCollection.
MaxFeatures == 2

\* --------------------------------------------------------- program constants

\* cli.py:352, the point count above which older datasets are skipped.
CoverageThreshold == 1000000
\* config.py:19 and config.py:18, DEFAULT_CONFIG.
DefaultMinPoints == 100
DefaultWorkers == 8
\* config.py:16
DefaultTileSize == 1000
\* boundaries.py:34, the years a dataset name is searched for.
FirstYear == 1990
LastYear == 2025

\* ------------------------------------------------------------------ inputs

\* The input boundary, as the set of the cells it is made of; a footprint is
\* given by the cells of the boundary it covers (an intersecting one covers
\* at least one): a part of the boundary, or all of it.  No step of main reads
\* a footprint; the properties do.
Cells == {"w", "e"}
Footprints == {{"w"}, Cells}
\* Acquisition years extract_year finds in a name.
Years == {2010, 2020}
\* Point counts PDAL reports for a written file.
PointChoices == {0, CoverageThreshold, CoverageThreshold + 1}
\* --workers: 0 stands for an absent (or zero, equally falsy) value.
WorkerChoices == {0, 4}
\* What is stored at the --config path.
ConfigFiles == {"missing", "corrupt", "user", "huge"}

\* A feature of the catalog that intersects the boundary: hasYear tells whether
\* extract_year found a year in its name.
Features ==
    [hasYear : {TRUE}, year : Years, foot : Footprints]
    \cup [hasYear : {FALSE}, year : {0}, foot : Footprints]

VARIABLES
    args,              \* the parsed command line
    pc,                \* the position of main
    ret,               \* "running", "ret0", "ret1", or "raised": an exception left main
    config,            \* the configuration after load_config and the overrides
    datasets,          \* the list find_intersecting_datasets returned (then sorted)
    remaining_boundary,\* cli.py:334
    downloaded_files,  \* cli.py:324
    i,                 \* the loop index, from 1
    info_content,      \* the lines collected for the info file, as tags
    fs,                \* the LAZ files that exist: path -> [src, points]
    outDir,            \* <output_dir>/<stem> exists
    tempDir,           \* <output_dir>/<stem>/temp exists
    infoWritten,       \* the info file was written (with info_content)
    viz,               \* "none", "saved" or "failed": the coverage map
    calls,             \* history: the download_lidar_data calls made, each with the
                       \* files downloaded before it
    active,            \* the calls (indices of calls) that have not returned
    last,              \* what the last run_pdal_pipeline returned
    mergeCalls,        \* history: the merge_laz_files calls made
    faults,            \* history: the steps of main that failed
    configFile,        \* what is stored at the path given to load_config
    name,              \* the dataset name given to extract_year
    year,              \* what extract_year returned
    boundary_geojson,  \* the boundary given to boundary_to_gdf and download_dataset
    gdf,               \* what boundary_to_gdf returned
    pipeline           \* the pipeline create_pdal_pipeline returned

\* The state of a run of main.
mainVars == <<args, pc, ret, config, datasets, remaining_boundary, downloaded_files,
              i, info_content, fs, outDir, tempDir, infoWritten, viz, calls, active,
              last, mergeCalls, faults>>
\* The state of the functions that are followed on their own.
unitVars == <<configFile, name, year, boundary_geojson, gdf, pipeline>>

vars == <<mainVars, unitVars>>
\* The variables of main a function followed on its own leaves alone.
mainVarsButPc == <<args, ret, config, datasets, remaining_boundary, downloaded_files,
                   i, info_content, fs, outDir, tempDir, infoWritten, viz, calls,
                   active, last, mergeCalls, faults>>

\* ------------------------------------------------------------------- paths

\* <output_dir>/<stem>/<stem>.laz, the final file (cli.py:453).
FinalPath == [dir |-> "out", ds |-> 0]
\* The file download_dataset writes below <output_dir>/<stem>/temp/<name>/.
TempPath(id) == [dir |-> "temp", ds |-> id]

NoFiles == [p \in {} |-> [src |-> {}, points |-> 0]]
WriteFile(f, path, content) ==
    [p \in DOMAIN f \cup {path} |-> IF p = path THEN content ELSE f[p]]
\* shutil.rmtree(temp_dir): everything below temp is gone.
RemoveTemp(f) == [p \in {q \in DOMAIN f : q.dir # "temp"} |-> f[p]]

\* ----------------------------------------------------------- configuration

\* The values a JSON file or a config dictionary holds.  A float is counted
\* in halves (n = 1 is 0.5), "bigint" is an int beyond the range of a float.
IntVal(n)   == [k |-> "int",    n |-> n, s |-> ""]
FloatVal(h) == [k |-> "float",  n |-> h, s |-> ""]
NaN      == [k |-> "nan",    n |-> 0, s |-> ""]
Inf(sgn) == [k |-> "inf",    n |-> sgn, s |-> ""]
BigInt   == [k |-> "bigint", n |-> 1, s |-> ""]
BoolVal(b)  == [k |-> "bool",   n |-> b, s |-> ""]
StrVal(t)   == [k |-> "str",    n |-> 0, s |-> t]
None     == [k |-> "none",   n |-> 0, s |-> ""]
List     == [k |-> "list",   n |-> 0, s |-> ""]

\* What a conversion gives: a value, or the exception it raises.
Ok(v)  == [exc |-> "", val |-> v]
Exc(e) == [exc |-> e, val |-> None]

\* The strings of the model that float() and int() accept.
FloatLiterals == ("5" :> FloatVal(10)) @@ ("0.5" :> FloatVal(1)) @@ ("nan" :> NaN)
IntLiterals   == ("5" :> IntVal(5))

\* float(v) of Python.
py_float(v) ==
    CASE v.k \in {"int", "bool"}         -> Ok(FloatVal(2 * v.n))
      [] v.k \in {"float", "nan", "inf"} -> Ok(v)
      [] v.k = "bigint"                  -> Exc("OverflowError")
      [] v.k = "str" -> IF v.s \in DOMAIN FloatLiterals
                        THEN Ok(FloatLiterals[v.s]) ELSE Exc("ValueError")
      [] OTHER                           -> Exc("TypeError")

\* int(v) of Python: a float is truncated towards zero.
py_int(v) ==
    CASE v.k \in {"int", "bigint"} -> Ok(v)
      [] v.k = "bool"              -> Ok(IntVal(v.n))
      [] v.k = "float" -> Ok(IntVal(IF v.n >= 0 THEN v.n \div 2 ELSE -((-v.n) \div 2)))
      [] v.k = "nan"               -> Exc("ValueError")
      [] v.k = "inf"               -> Exc("OverflowError")
      [] v.k = "str" -> IF v.s \in DOMAIN IntLiterals
                        THEN Ok(IntLiterals[v.s]) ELSE Exc("ValueError")
      [] OTHER                     -> Exc("TypeError")

\* v <= 0 and v < 0 of Python, for a number: false for NaN.
LeZero(v) ==
    CASE v.k \in {"int", "float"} -> v.n <= 0
      [] v.k = "inf"              -> v.n < 0
      [] OTHER                    -> FALSE
LtZero(v) ==
    CASE v.k \in {"int", "float"} -> v.n < 0
      [] v.k = "inf"              -> v.n < 0
      [] OTHER                    -> FALSE

DEFAULT_CONFIG ==
    [tile_size        |-> IntVal(DefaultTileSize),
     resolution       |-> None,
     download_workers |-> IntVal(DefaultWorkers),
     min_points       |-> IntVal(DefaultMinPoints),
     region           |-> StrVal("us-west-2")]

\* One of the four blocks of validate_config (config.py:75-83, 88-95, 101-109,
\* 112-120), given what the conversion r of c[key] gave and whether its value
\* is out of range: replace what is out of range or cannot be converted; only
\* ValueError and TypeError are caught.
Validated(c, key, r, outOfRange, fallback) ==
    IF r.exc = ""
    THEN [config |-> [c EXCEPT ![key] = IF outOfRange THEN fallback ELSE r.val],
          raised |-> FALSE]
    ELSE IF r.exc \in {"ValueError", "TypeError"}
         THEN [config |-> [c EXCEPT ![key] = fallback], raised |-> FALSE]
         ELSE [config |-> c, raised |-> TRUE]

Untouched(c) == [config |-> c, raised |-> FALSE]

\* config.py:86-98
ValidatedResolution(c) ==
    IF "resolution" \in DOMAIN c /\ c["resolution"] # None
    THEN IF c["resolution"] # StrVal("full")
         THEN LET r == py_float(c["resolution"])
              IN  Validated(c, "resolution", r, LeZero(r.val), None)
         ELSE Untouched([c EXCEPT !["resolution"] = None])
    ELSE Untouched(c)

\* config.py:75-83
ValidatedTileSize(c) ==
    IF "tile_size" \in DOMAIN c
    THEN LET r == py_float(c["tile_size"])
         IN  Validated(c, "tile_size", r, LeZero(r.val), DEFAULT_CONFIG["tile_size"])
    ELSE Untouched(c)

\* config.py:101-109
ValidatedWorkers(c) ==
    IF "download_workers" \in DOMAIN c
    THEN LET r == py_int(c["download_workers"])
         IN  Validated(c, "download_workers", r, LeZero(r.val),
                       DEFAULT_CONFIG["download_workers"])
    ELSE Untouched(c)

\* config.py:112-120
ValidatedMinPoints(c) ==
    IF "min_points" \in DOMAIN c
    THEN LET r == py_int(c["min_points"])
         IN  Validated(c, "min_points", r, LtZero(r.val), DEFAULT_CONFIG["min_points"])
    ELSE Untouched(c)

\* validate_config: the validated dictionary, or raised when an exception
\* other than ValueError and TypeError leaves it.
validate_config(c) ==
    LET t == ValidatedTileSize(c)
        r == IF t.raised THEN t ELSE ValidatedResolution(t.config)
        w == IF r.raised THEN r ELSE ValidatedWorkers(r.config)
    IN  IF w.raised THEN w ELSE ValidatedMinPoints(w.config)

\* What is stored at a path: nothing, something that cannot be opened or is
\* not JSON, a JSON value that is not an object, or a JSON object.
NoObject    == [key \in {} |-> None]
Missing     == [kind |-> "missing",    obj |-> NoObject]
Unreadable  == [kind |-> "unreadable", obj |-> NoObject]
Scalar      == [kind |-> "scalar",     obj |-> NoObject]
JsonFile(o) == [kind |-> "object",     obj |-> o]

\* A variant of the update that keeps the defaults where both have a key.
OverlayDefaultsWin(d, u) ==
    [key \in DOMAIN d \cup DOMAIN u |-> IF key \in DOMAIN d THEN d[key] ELSE u[key]]

\* config.update(user_config) (config.py:45)
Overlay(d, u) ==
    [key \in DOMAIN d \cup DOMAIN u |-> IF key \in DOMAIN u THEN u[key] ELSE d[key]]

\* config.py:36-50: the dictionary load_config hands to validate_config.  A
\* JSON number or null makes update raise TypeError, which is caught.
ConfigRead(file) ==
    IF file.kind = "object" THEN Overlay(DEFAULT_CONFIG, file.obj) ELSE DEFAULT_CONFIG

\* config.py:51-58: a missing file is created with the defaults, when it can
\* be written.
FileAfterLoad(file, writable) ==
    IF file.kind = "missing" /\ writable THEN JsonFile(DEFAULT_CONFIG) ELSE file

\* load_config: what it returns, or raised.
load_config(file) == validate_config(ConfigRead(file))

\* The file main finds at --config: none, a broken one, one that sets
\* min_points to 0, one that sets download_workers to 1e999.
FileAt(f) ==
    CASE f = "missing" -> Missing
      [] f = "corrupt" -> Unreadable
      [] f = "user"    -> JsonFile([key \in {"min_points"} |-> IntVal(0)])
      [] f = "huge"    -> JsonFile([key \in {"download_workers"} |-> Inf(1)])

\* The two settings main and download_dataset read as numbers.
MainConfig(c) ==
    [download_workers |-> c["download_workers"].n, min_points |-> c["min_points"].n]

\* cli.py:269-270.
OverrideWorkers(c, a) ==
    IF a.workers # 0 THEN [c EXCEPT !.download_workers = a.workers] ELSE c

\* ------------------------------------------------- dataset discovery, sort

\* find_intersecting_datasets: the 'year' column of the catalog frame exists
\* as soon as one feature of the catalog has a year; a row without a year then
\* holds NaN, and "'year' in row" is true for it.
DatasetOf(feats, k, yearColumn) ==
    [id   |-> k,
     yk   |-> IF feats[k].hasYear THEN "int" ELSE IF yearColumn THEN "nan" ELSE "absent",
     year |-> IF feats[k].hasYear THEN feats[k].year ELSE 0,
     foot |-> feats[k].foot]

find_intersecting_datasets(feats, otherHasYear) ==
    LET yearColumn == otherHasYear \/ \E k \in DOMAIN feats : feats[k].hasYear
    IN  [k \in DOMAIN feats |-> DatasetOf(feats, k, yearColumn)]

\* The sort key of cli.py:285, x.get('year', 0): a float NaN when the year is NaN.
KeyOf(d) == [nan |-> d.yk = "nan", v |-> d.year]
\* Python's <: false whenever an operand is NaN.
ISLT(a, b) == ~a.nan /\ ~b.nan /\ a.v < b.v

Reverse(s) == [k \in 1..Len(s) |-> s[Len(s) + 1 - k]]

\* list.sort of CPython for fewer than 64 elements: count_run finds the
\* first run, binarysort inserts the remaining elements.
RECURSIVE RunLen(_, _, _)
RunLen(s, n, descending) ==
    IF n >= Len(s) THEN n
    ELSE IF ISLT(KeyOf(s[n + 1]), KeyOf(s[n])) = descending
         THEN RunLen(s, n + 1, descending)
         ELSE n

count_run(s) ==
    LET descending == ISLT(KeyOf(s[2]), KeyOf(s[1]))
    IN  [n |-> RunLen(s, 2, descending), descending |-> descending]

RECURSIVE BinSearch(_, _, _, _)
BinSearch(s, pivot, l, r) ==
    LET p  == l + ((r - l) \div 2)
        lt == ISLT(pivot, KeyOf(s[p]))
        l2 == IF lt THEN l ELSE p + 1
        r2 == IF lt THEN p ELSE r
    IN  IF l2 < r2 THEN BinSearch(s, pivot, l2, r2) ELSE l2

RECURSIVE binarysort(_, _)
binarysort(s, start) ==
    IF start > Len(s) THEN s
    ELSE LET pos == BinSearch(s, KeyOf(s[start]), 1, start)
             t   == [k \in 1..Len(s) |->
                        IF k < pos THEN s[k]
                        ELSE IF k = pos THEN s[start]
                        ELSE IF k <= start THEN s[k - 1]
                        ELSE s[k]]
         IN  binarysort(t, start + 1)

SortAscending(s) ==
    IF Len(s) < 2 THEN s
    ELSE LET run == count_run(s)
             t   == IF run.descending
                    THEN [k \in 1..Len(s) |-> IF k <= run.n THEN s[run.n + 1 - k] ELSE s[k]]
                    ELSE s
         IN  binarysort(t, run.n + 1)

\* datasets.sort(key=..., reverse=True): reverse, sort stably, reverse back.
SortByYearDesc(s) == Reverse(SortAscending(Reverse(s)))

\* ---------------------------------------------------------------- download

get_point_count(f, path) == IF path \in DOMAIN f THEN f[path].points ELSE 0

RECURSIVE SumPoints(_, _)
SumPoints(f, files) ==
    IF files = <<>> THEN 0
    ELSE get_point_count(f, Head(files)) + SumPoints(f, Tail(files))

\* What the pdal process did: "error" (a non-zero exit status, or it could not
\* be run), "no_output" (exit status 0 and no file), or "ok" with the points.
PdalOutcomes ==
    {[kind |-> "error", points |-> 0], [kind |-> "no_output", points |-> 0]}
    \cup {[kind |-> "ok", points |-> p] : p \in PointChoices}

\* run_pdal_pipeline: (success, point_count); min_points is not read.
run_pdal_pipeline(o, min_points) ==
    [success     |-> o.kind # "error",
     point_count |-> IF o.kind = "ok" THEN o.points ELSE 0]

\* download_dataset: the files it returns.
download_dataset(o, path, min_points) ==
    LET r == run_pdal_pipeline(o, min_points)
    IN  IF r.success /\ o.kind = "ok" THEN <<path>> ELSE <<>>

\* ------------------------------------------------------------------- main

\* The values of the variables a specification does not use.
ConfigIdle == configFile = Missing
YearIdle == name = <<>> /\ year = 0
BoundaryIdle == boundary_geojson = 0 /\ gdf = 0 /\ pipeline = 0
UnitsIdle == ConfigIdle /\ YearIdle /\ BoundaryIdle

Init ==
    /\ args \in [dry_run : BOOLEAN, keep_temp : BOOLEAN, most_recent : BOOLEAN,
                 no_visualization : BOOLEAN, workers : WorkerChoices]
    /\ pc = "mkdir"
    /\ ret = "running"
    /\ config = MainConfig(DEFAULT_CONFIG)
    /\ datasets = <<>>
    /\ remaining_boundary = {}
    /\ downloaded_files = <<>>
    /\ i = 0
    /\ info_content = <<>>
    /\ fs = NoFiles
    /\ outDir = FALSE
    /\ tempDir = FALSE
    /\ infoWritten = FALSE
    /\ viz = "none"
    /\ calls = <<>>
    /\ active = {}
    /\ last = [ran |-> FALSE, success |-> FALSE, point_count |-> 0, returned |-> FALSE]
    /\ mergeCalls = <<>>
    /\ faults = {}
    /\ UnitsIdle

\* try: (cli.py:262) ... except Exception: return 1 (cli.py:559-563).  The two
\* mkdir calls of cli.py:253 and cli.py:260 stand before the try.
InTry(step) == step # "mkdir"
\* A variant whose handler returns 0.
ExceptionResultZero(step) == IF InTry(step) THEN "ret0" ELSE "raised"
ExceptionResult(step) == IF InTry(step) THEN "ret1" ELSE "raised"

\* cli.py:252-260
MakeOutputDirs ==
    /\ UNCHANGED unitVars
    /\ pc = "mkdir"
    /\ \E ok \in BOOLEAN :
          IF ok
          THEN /\ outDir' = TRUE
               /\ pc' = "load_config"
               /\ UNCHANGED <<ret, faults>>
          ELSE /\ outDir' = FALSE
               /\ pc' = "done"
               /\ ret' = ExceptionResult("mkdir")
               /\ faults' = faults \cup {"mkdir"}
    /\ UNCHANGED <<args, config, datasets, remaining_boundary, downloaded_files, i,
                   info_content, fs, tempDir, infoWritten, viz, calls, active, last,
                   mergeCalls>>

\* cli.py:264-270; load_config catches what goes wrong reading the file, but
\* not what validate_config lets through.
LoadConfig ==
    /\ UNCHANGED unitVars
    /\ pc = "load_config"
    /\ \E file \in ConfigFiles :
          LET r == load_config(FileAt(file))
          IN  IF r.raised
              THEN /\ pc' = "done"
                   /\ ret' = ExceptionResult("load_config")
                   /\ faults' = faults \cup {"validate"}
                   /\ UNCHANGED config
              ELSE /\ config' = OverrideWorkers(MainConfig(r.config), args)
                   /\ faults' = IF file = "corrupt" THEN faults \cup {"config"} ELSE faults
                   /\ pc' = "read_boundary"
                   /\ UNCHANGED ret
    /\ UNCHANGED <<args, datasets, remaining_boundary, downloaded_files, i,
                   info_content, fs, outDir, tempDir, infoWritten, viz, calls, active,
                   last, mergeCalls>>

\* cli.py:273-274
ReadBoundary ==
    /\ UNCHANGED unitVars
    /\ pc = "read_boundary"
    /\ \E ok \in BOOLEAN :
          IF ok
          THEN /\ pc' = "find"
               /\ UNCHANGED <<ret, faults>>
          ELSE /\ pc' = "done"
               /\ ret' = ExceptionResult("read_boundary")
               /\ faults' = faults \cup {"boundary"}
    /\ UNCHANGED <<args, config, datasets, remaining_boundary, downloaded_files, i,
                   info_content, fs, outDir, tempDir, infoWritten, viz, calls, active,
                   last, mergeCalls>>

\* cli.py:276-282; find_intersecting_datasets returns [] when the catalog
\* cannot be fetched or anything else goes wrong in it.
FindDatasets ==
    /\ UNCHANGED unitVars
    /\ pc = "find"
    /\ \E ok \in BOOLEAN :
          IF ok
          THEN /\ \E n \in 0..MaxDatasets : \E feats \in [1..n -> Features] :
                     \E otherHasYear \in BOOLEAN :
                        datasets' = find_intersecting_datasets(feats, otherHasYear)
               /\ UNCHANGED faults
          ELSE /\ datasets' = <<>>
               /\ faults' = faults \cup {"discovery"}
    /\ IF datasets' = <<>>
       THEN pc' = "done" /\ ret' = "ret0"
       ELSE pc' = "sort" /\ UNCHANGED ret
    /\ UNCHANGED <<args, config, remaining_boundary, downloaded_files, i,
                   info_content, fs, outDir, tempDir, infoWritten, viz, calls, active,
                   last, mergeCalls>>

\* A variant that draws the map in a dry run too.
VisualizationWantedAlways(a) == ~a.no_visualization

\* cli.py:292
VisualizationWanted(a) == ~a.no_visualization /\ ~a.dry_run

\* A variant of create_visualization that lets the exception of a failed
\* rendering out.
create_visualization_raising(drawn) == [viz |-> drawn, raised |-> drawn = "failed"]

\* create_visualization (cli.py:36-195): the map is saved, or rendering fails
\* and the handler of cli.py:192-195 logs the exception; it changes neither
\* datasets nor the boundary.
create_visualization(drawn) == [viz |-> drawn, raised |-> FALSE]

\* cli.py:284-290 and 296-334, what main does around the map: sort, list,
\* return on --dry-run, else make the temp directory and begin the info file.
WithoutVisualization ==
    /\ datasets' = SortByYearDesc(datasets)
    /\ IF args.dry_run
       THEN /\ pc' = "done"
            /\ ret' = "ret0"
            /\ UNCHANGED <<tempDir, info_content, i, remaining_boundary>>
       ELSE /\ tempDir' = (tempDir \/ Len(datasets) > 1)
            /\ info_content' = <<"header">>
            /\ i' = 1
            /\ remaining_boundary' = IF args.most_recent THEN Cells ELSE {}
            /\ pc' = IF args.most_recent THEN "mr_loop" ELSE "all_loop"
            /\ UNCHANGED ret
    /\ UNCHANGED <<args, config, downloaded_files, fs, outDir, infoWritten, calls,
                   active, last, mergeCalls, faults>>

\* cli.py:284-334, with the coverage map of cli.py:291-294.
SortAndList ==
    /\ UNCHANGED unitVars
    /\ pc = "sort"
    /\ \E drawn \in {"saved", "failed"} :
          LET v == IF VisualizationWanted(args)
                   THEN create_visualization(drawn)
                   ELSE [viz |-> "none", raised |-> FALSE]
          IN  /\ viz' = v.viz
              /\ IF v.raised
                 THEN /\ datasets' = SortByYearDesc(datasets)
                      /\ pc' = "done"
                      /\ ret' = ExceptionResult("visualization")
                      /\ UNCHANGED <<args, config, remaining_boundary, downloaded_files,
                                     i, info_content, fs, outDir, tempDir, infoWritten,
                                     calls, active, last, mergeCalls, faults>>
                 ELSE WithoutVisualization

\* ------------------------------------------------------- the download loops

\* A variant that hands the calls to a pool of download_workers workers.
WaitsForPool(c) == c.download_workers <= 1

\* download_lidar_data is an ordinary call, and run_pdal_pipeline waits for
\* the process with subprocess.run (download.py:425): the caller goes on only
\* when the call has returned.  download_workers is never read.
WaitsForReturn(c) == TRUE

\* A variant that skips at CoverageThreshold points already.
SkipOlderAtThreshold(f, files, idx) ==
    /\ idx > 1
    /\ Len(files) > 0
    /\ SumPoints(f, files) >= CoverageThreshold

\* A variant that also gives up on the older datasets when nothing was
\* downloaded.
SkipOlderAfterFailure(f, files, idx) ==
    /\ idx > 1
    /\ Len(files) = 0 \/ SumPoints(f, files) > CoverageThreshold

\* cli.py:346-352: the newer files hold more than CoverageThreshold points.
SkipOlder(f, files, idx) ==
    /\ idx > 1
    /\ Len(files) > 0
    /\ SumPoints(f, files) > 0
    /\ SumPoints(f, files) > CoverageThreshold

\* The boundary handed to download_lidar_data in the most-recent loop (cli.py:369).
GapBoundary == remaining_boundary

\* What a download's return does to the files, to last and to downloaded_files.
DownloadReturns(o, path, id) ==
    LET files == download_dataset(o, path, config.min_points)
        r     == run_pdal_pipeline(o, config.min_points)
    IN  /\ fs' = IF o.kind = "ok"
                 THEN WriteFile(fs, path, [src |-> {id}, points |-> o.points])
                 ELSE fs
        /\ last' = [ran |-> TRUE, success |-> r.success,
                    point_count |-> r.point_count, returned |-> files # <<>>]
        /\ downloaded_files' = downloaded_files \o files
        /\ UNCHANGED faults
        /\ active' = active \ {Len(calls)}

\* cli.py:344-356: leave the loop, the newer data is taken to be enough.
MRSkip ==
    /\ UNCHANGED unitVars
    /\ pc = "mr_loop"
    /\ SkipOlder(fs, downloaded_files, i)
    /\ info_content' = Append(info_content, "skip")
    /\ pc' = "process"
    /\ UNCHANGED <<args, ret, config, datasets, remaining_boundary, downloaded_files,
                   i, fs, outDir, tempDir, infoWritten, viz, calls, active, last,
                   mergeCalls, faults>>

\* Where the loop stands once dataset idx is done with (cli.py:406-407).
MRAfter(idx) == IF idx = Len(datasets) THEN "process" ELSE "mr_loop"

\* cli.py:337-374: the call of download_lidar_data for datasets[i].
MRStart ==
    /\ UNCHANGED unitVars
    /\ pc = "mr_loop"
    /\ ~SkipOlder(fs, downloaded_files, i)
    /\ info_content' = Append(info_content, IF i = 1 THEN "primary" ELSE "gap")
    /\ tempDir' = TRUE
    /\ calls' = Append(calls, [ds |-> datasets[i].id, boundary |-> GapBoundary,
                               path |-> TempPath(datasets[i].id),
                               before |-> downloaded_files])
    /\ active' = active \cup {Len(calls) + 1}
    /\ IF WaitsForReturn(config)
       THEN pc' = "mr_wait" /\ UNCHANGED i
       ELSE pc' = MRAfter(i) /\ i' = IF i = Len(datasets) THEN i ELSE i + 1
    /\ UNCHANGED <<args, ret, config, datasets, remaining_boundary, downloaded_files,
                   fs, outDir, infoWritten, viz, last, mergeCalls, faults>>

\* cli.py:368-407: the call returns.
MRFinish ==
    /\ UNCHANGED unitVars
    /\ pc = "mr_wait"
    /\ \E o \in PdalOutcomes :
          /\ DownloadReturns(o, TempPath(datasets[i].id), datasets[i].id)
          /\ info_content' = Append(info_content,
                IF o.kind # "ok" THEN "nodata" ELSE IF i > 1 THEN "filled" ELSE "downloaded")
    /\ pc' = MRAfter(i)
    /\ i' = IF i = Len(datasets) THEN i ELSE i + 1
    /\ UNCHANGED <<args, ret, config, datasets, remaining_boundary, outDir, tempDir,
                   infoWritten, viz, calls, mergeCalls>>

\* A variant that leaves the loop at the first dataset without a file.
AllAfterStopOnEmpty(idx, files) ==
    IF idx = Len(datasets) \/ files = <<>> THEN "process" ELSE "all_loop"

\* cli.py:418: where the all-datasets loop has a dataset's file written.
AllPath(d) == IF Len(datasets) > 1 THEN TempPath(d.id) ELSE FinalPath

\* Where the all-datasets loop stands once dataset idx is done with, given the
\* files its download returned (cli.py:416, 430-446).
AllAfter(idx, files) == IF idx = Len(datasets) THEN "process" ELSE "all_loop"

\* cli.py:416-428
AllStart ==
    /\ UNCHANGED unitVars
    /\ pc = "all_loop"
    /\ tempDir' = (tempDir \/ Len(datasets) > 1)
    /\ calls' = Append(calls, [ds |-> datasets[i].id, boundary |-> Cells,
                               path |-> AllPath(datasets[i]),
                               before |-> downloaded_files])
    /\ active' = active \cup {Len(calls) + 1}
    /\ IF WaitsForReturn(config)
       THEN pc' = "all_wait" /\ UNCHANGED i
       ELSE pc' = AllAfter(i, <<>>) /\ i' = IF i = Len(datasets) THEN i ELSE i + 1
    /\ UNCHANGED <<args, ret, config, datasets, remaining_boundary, downloaded_files,
                   info_content, fs, outDir, infoWritten, viz, last, mergeCalls, faults>>

\* cli.py:422-446
AllFinish ==
    /\ UNCHANGED unitVars
    /\ pc = "all_wait"
    /\ \E o \in PdalOutcomes :
          /\ DownloadReturns(o, AllPath(datasets[i]), datasets[i].id)
          /\ info_content' = Append(info_content,
                                    IF o.kind = "ok" THEN "downloaded" ELSE "nodata")
          /\ pc' = AllAfter(i, download_dataset(o, AllPath(datasets[i]), config.min_points))
    /\ i' = IF i = Len(datasets) THEN i ELSE i + 1
    /\ UNCHANGED <<args, ret, config, datasets, remaining_boundary, outDir, tempDir,
                   infoWritten, viz, calls, mergeCalls>>

\* ------------------------------------------------------ merge, copy, report

RECURSIVE Sources(_, _)
Sources(f, files) ==
    IF files = <<>> THEN {} ELSE f[Head(files)].src \cup Sources(f, Tail(files))

\* merge_laz_files(files, out, None) when it succeeds: out holds the points of
\* every input.
merge_laz_files(f, files, out) ==
    WriteFile(f, out, [src |-> Sources(f, files), points |-> SumPoints(f, files)])

\* A variant that merges only the gap-filling files, without the first.
MergeInputsGapsOnly(files) == Tail(files)

\* The files handed to merge_laz_files (cli.py:498).
MergeInputs(files) == files

\* shutil.copy2(source_file, merged_file) (cli.py:490), which raises
\* SameFileError when both name one file; done tells whether the copy itself
\* could be made.
CopySucceeds(src, dst, done) == src # dst /\ done

\* cli.py:518: the temp directory is removed unless --keep-temp was given.
CleansUp(a) == ~a.keep_temp

\* The value main returns after a failed merge or copy (cli.py:535).
FailedMergeResult == "ret1"

\* cli.py:448-531
Process ==
    /\ UNCHANGED unitVars
    /\ pc = "process"
    /\ IF downloaded_files = <<>>
       THEN /\ pc' = "write_info"
            /\ UNCHANGED <<fs, tempDir, info_content, mergeCalls, faults>>
       ELSE \E done \in BOOLEAN :
            LET single  == Len(downloaded_files) = 1
                src     == downloaded_files[1]
                success == IF single THEN CopySucceeds(src, FinalPath, done) ELSE done
                written == IF single
                           THEN WriteFile(fs, FinalPath, fs[src])
                           ELSE merge_laz_files(fs, MergeInputs(downloaded_files), FinalPath)
            IN  /\ (single /\ src = FinalPath) => done
                /\ mergeCalls' = IF single THEN mergeCalls
                                 ELSE Append(mergeCalls,
                                             [inputs |-> MergeInputs(downloaded_files),
                                              out |-> FinalPath])
                /\ faults' = IF success THEN faults
                             ELSE faults \cup {IF ~single THEN "merge"
                                               ELSE IF src = FinalPath THEN "samefile"
                                               ELSE "copy"}
                /\ IF success
                   THEN /\ info_content' = info_content \o
                               <<IF single THEN "processing" ELSE "merging", "merged">>
                        /\ IF CleansUp(args) /\ tempDir
                           THEN fs' = RemoveTemp(written) /\ tempDir' = FALSE
                           ELSE fs' = written /\ UNCHANGED tempDir
                        /\ pc' = "write_info"
                   ELSE /\ info_content' = info_content \o
                               <<IF single THEN "processing" ELSE "merging",
                                 "Failed to merge files">>
                        /\ UNCHANGED <<fs, tempDir>>
                        /\ pc' = "write_info_failed"
    /\ UNCHANGED <<args, ret, config, datasets, remaining_boundary, downloaded_files,
                   i, outDir, infoWritten, viz, calls, active, last>>

\* Writing the info file: it is written, or open/write raises inside the try.
WriteInfoFile(result) ==
    /\ UNCHANGED unitVars
    /\ \E ok \in BOOLEAN :
          IF ok
          THEN /\ infoWritten' = TRUE
               /\ ret' = result
               /\ UNCHANGED faults
          ELSE /\ ret' = ExceptionResult("write_info")
               /\ faults' = faults \cup {"info"}
               /\ UNCHANGED infoWritten
    /\ pc' = "done"
    /\ UNCHANGED <<args, config, datasets, remaining_boundary, downloaded_files, i,
                   info_content, fs, outDir, tempDir, viz, calls, active, last,
                   mergeCalls>>

\* cli.py:551-557
WriteInfo ==
    /\ pc = "write_info"
    /\ WriteInfoFile("ret0")

\* cli.py:532-535
WriteInfoFailed ==
    /\ pc = "write_info_failed"
    /\ WriteInfoFile(FailedMergeResult)

Next ==
    \/ MakeOutputDirs
    \/ LoadConfig
    \/ ReadBoundary
    \/ FindDatasets
    \/ SortAndList
    \/ MRSkip
    \/ MRStart
    \/ MRFinish
    \/ AllStart
    \/ AllFinish
    \/ Process
    \/ WriteInfo
    \/ WriteInfoFailed

Spec == Init /\ [][Next]_vars

\* A --most-recent run, followed to the end of its download loop.
InitMostRecent == Init /\ args.most_recent

NextMostRecent ==
    \/ MakeOutputDirs
    \/ LoadConfig
    \/ ReadBoundary
    \/ FindDatasets
    \/ SortAndList
    \/ MRSkip
    \/ MRStart
    \/ MRFinish

\* The steps of the loop are taken when they can be: main runs on, and
\* subprocess.run returns when the pdal process ends.
SpecMostRecent ==
    /\ InitMostRecent
    /\ [][NextMostRecent]_vars
    /\ WF_vars(MRSkip) /\ WF_vars(MRStart) /\ WF_vars(MRFinish)

TypeOK ==
    /\ pc \in {"mkdir", "load_config", "read_boundary", "find", "sort", "mr_loop",
               "mr_wait", "all_loop", "all_wait", "process", "write_info",
               "write_info_failed", "done"}
    /\ ret \in {"running", "ret0", "ret1", "raised"}
    /\ (pc = "done") = (ret # "running")
    /\ Len(datasets) <= MaxDatasets

\* ------------------------------------- load_config, followed on its own

ValidatedKeys == {"tile_size", "resolution", "download_workers", "min_points"}

\* The values a user's config file gives a setting.
JsonValues ==
    {IntVal(-1), IntVal(0), IntVal(5), FloatVal(-1), FloatVal(1), FloatVal(5),
     NaN, Inf(1), Inf(-1), BigInt, BoolVal(1), None, List,
     StrVal("full"), StrVal("5"), StrVal("0.5"), StrVal("nan"), StrVal("abc")}

\* The JSON objects of a user's config file: at most MaxKeys settings.
UserObjects ==
    UNION {[K -> JsonValues] :
              K \in {S \in SUBSET ValidatedKeys : Cardinality(S) <= MaxKeys}}

ConfigFileContents ==
    {Missing, Unreadable, Scalar} \cup {JsonFile(o) : o \in UserObjects}

\* The variables of main, at rest.
MainIdle ==
    /\ args = [dry_run |-> FALSE, keep_temp |-> FALSE, most_recent |-> FALSE,
               no_visualization |-> FALSE, workers |-> 0]
    /\ datasets = <<>>
    /\ remaining_boundary = {}
    /\ downloaded_files = <<>>
    /\ i = 0
    /\ info_content = <<>>
    /\ fs = NoFiles
    /\ outDir = FALSE
    /\ tempDir = FALSE
    /\ infoWritten = FALSE
    /\ viz = "none"
    /\ calls = <<>>
    /\ active = {}
    /\ last = [ran |-> FALSE, success |-> FALSE, point_count |-> 0, returned |-> FALSE]
    /\ mergeCalls = <<>>
    /\ faults = {}

InitConfig ==
    /\ MainIdle
    /\ YearIdle
    /\ BoundaryIdle
    /\ configFile \in ConfigFileContents
    /\ config = NoObject
    /\ pc = "config_read"
    /\ ret = "running"

\* config.py:36-58: read the file, or create it.
ReadConfigFile ==
    /\ pc = "config_read"
    /\ config' = ConfigRead(configFile)
    /\ \E writable \in BOOLEAN :
          /\ configFile' = FileAfterLoad(configFile, writable)
          /\ faults' = IF configFile = Missing /\ ~writable
                       THEN faults \cup {"config_write"} ELSE faults
    /\ pc' = "config_validate"
    /\ UNCHANGED <<args, ret, datasets, remaining_boundary, downloaded_files, i,
                   info_content, fs, outDir, tempDir, infoWritten, viz, calls, active,
                   last, mergeCalls>>
    /\ UNCHANGED <<name, year, boundary_geojson, gdf, pipeline>>

\* config.py:61
ValidateConfig ==
    /\ pc = "config_validate"
    /\ LET r == validate_config(config)
       IN  /\ config' = r.config
           /\ ret' = IF r.raised THEN "raised" ELSE "returned"
    /\ pc' = "config_done"
    /\ UNCHANGED <<args, datasets, remaining_boundary, downloaded_files, i,
                   info_content, fs, outDir, tempDir, infoWritten, viz, calls, active,
                   last, mergeCalls, faults>>
    /\ UNCHANGED unitVars

NextConfig ==
    \/ ReadConfigFile
    \/ ValidateConfig

SpecConfig == InitConfig /\ [][NextConfig]_vars

\* ------------------------------------ extract_year, followed on its own

\* The pieces dataset names are put together from: years at and around the
\* ends of the ranges, a separator, a letter, a lone digit.
NameTokens ==
    {<<"1", "9", "8", "9">>, <<"1", "9", "9", "0">>, <<"2", "0", "2", "5">>,
     <<"2", "0", "2", "9">>, <<"2", "0", "3", "0">>, <<"_">>, <<"x">>, <<"7">>}

RECURSIVE Flatten(_)
Flatten(ts) == IF ts = <<>> THEN <<>> ELSE Head(ts) \o Flatten(Tail(ts))

\* The names: at most MaxTokens pieces.
Names ==
    {Flatten(ts) : ts \in UNION {[1..n -> NameTokens] : n \in 0..MaxTokens}}

Digits == {"0", "1", "2", "3", "4", "5", "6", "7", "8", "9"}
\* int() of one digit.
DigitValue(c) ==
    CASE c = "0" -> 0 [] c = "1" -> 1 [] c = "2" -> 2 [] c = "3" -> 3 [] c = "4" -> 4
      [] c = "5" -> 5 [] c = "6" -> 6 [] c = "7" -> 7 [] c = "8" -> 8 [] c = "9" -> 9

\* The group (19[9][0-9]|20[0-2][0-9]) of the pattern matches at p.
GroupAt(s, p) ==
    /\ p + 3 <= Len(s)
    /\ \/ s[p] = "1" /\ s[p + 1] = "9" /\ s[p + 2] = "9" /\ s[p + 3] \in Digits
       \/ s[p] = "2" /\ s[p + 1] = "0" /\ s[p + 2] \in {"0", "1", "2"}
             /\ s[p + 3] \in Digits

\* The whole pattern matches with its group at p: (?:^|[^0-9]) before the
\* group and (?:$|[^0-9]) after it.
MatchAt(s, p) ==
    /\ GroupAt(s, p)
    /\ p = 1 \/ s[p - 1] \notin Digits
    /\ p + 3 = Len(s) \/ s[p + 4] \notin Digits

NoYear == [found |-> FALSE, value |-> 0]

\* extract_year: int(years[0]) for the leftmost match of re.findall, or None.
extract_year(s) ==
    IF \E p \in 1..Len(s) : MatchAt(s, p)
    THEN LET p == CHOOSE q \in 1..Len(s) :
                     MatchAt(s, q) /\ \A r \in 1..(q - 1) : ~MatchAt(s, r)
         IN  [found |-> TRUE,
              value |-> 1000 * DigitValue(s[p]) + 100 * DigitValue(s[p + 1])
                        + 10 * DigitValue(s[p + 2]) + DigitValue(s[p + 3])]
    ELSE NoYear

InitYear ==
    /\ MainIdle
    /\ ConfigIdle
    /\ BoundaryIdle
    /\ config = NoObject
    /\ ret = "running"
    /\ pc = "extract_year"
    /\ name \in Names
    /\ year = NoYear

\* boundaries.py:164
ExtractYear ==
    /\ pc = "extract_year"
    /\ year' = extract_year(name)
    /\ pc' = "year_done"
    /\ UNCHANGED mainVarsButPc
    /\ UNCHANGED <<configFile, name, boundary_geojson, gdf, pipeline>>

NextYear == ExtractYear

SpecYear == InitYear /\ [][NextYear]_vars

\* ------------------- the boundary, from boundary_to_gdf to the pipeline

\* The geometry types boundary_to_gdf takes when they stand alone
\* (boundaries.py:106), and the ones create_pdal_pipeline takes (download.py:285).
BareTypes == {"Polygon", "MultiPolygon", "LineString", "MultiLineString", "Point",
              "MultiPoint"}
PolygonTypes == {"Polygon", "MultiPolygon"}

\* A geometry: its type, and coordinates that are well formed ("a") or not.
Geometries == [type : BareTypes \cup {"GeometryCollection"}, coords : {"a", "bad"}]
\* 'geometry': null, or no such key.
NoGeometry == [type |-> "null", coords |-> ""]

\* The GeoJSON documents of the model.
BareGeometry(g) ==
    [type |-> g.type, coords |-> g.coords, geometry |-> NoGeometry, features |-> <<>>]
Feature(g) ==
    [type |-> "Feature", coords |-> "", geometry |-> g, features |-> <<>>]
FeatureCollection(gs) ==
    [type |-> "FeatureCollection", coords |-> "", geometry |-> NoGeometry,
     features |-> gs]

Boundaries ==
    {BareGeometry(g) : g \in Geometries}
    \cup {Feature(g) : g \in Geometries \cup {NoGeometry}}
    \cup {FeatureCollection(gs) :
             gs \in UNION {[1..n -> Geometries \cup {NoGeometry}] : n \in 0..MaxFeatures}}

\* shape(geometry) of shapely raises for coordinates it cannot read.
ShapeRaises(g) == g.coords = "bad"

NoGdf == [ok |-> FALSE, geom |-> NoGeometry]

\* boundary_to_gdf: the geometry of the frame it returns, or None.
boundary_to_gdf(b) ==
    LET geometry ==
            IF b.type = "FeatureCollection"
            THEN IF b.features = <<>> THEN NoGeometry ELSE b.features[1]
            ELSE IF b.type = "Feature" THEN b.geometry
            ELSE IF b.type \in BareTypes THEN [type |-> b.type, coords |-> b.coords]
            ELSE NoGeometry
    IN  IF geometry = NoGeometry \/ ShapeRaises(geometry)
        THEN NoGdf
        ELSE [ok |-> TRUE, geom |-> geometry]

\* download.py:277-290: the geometry create_pdal_pipeline puts into the
\* reader's 'polygon' (json.dumps of the dictionary), NoGeometry when it sets
\* none.
PolygonOf(b) ==
    IF b.type = "FeatureCollection"
    THEN IF b.features = <<>> THEN NoGeometry ELSE b.features[1]
    ELSE IF b.type = "Feature" THEN b.geometry
    ELSE IF b.type \in PolygonTypes THEN [type |-> b.type, coords |-> b.coords]
    ELSE NoGeometry

\* create_pdal_pipeline as download_dataset calls it (no bounds): the reader
\* stage.
create_pdal_pipeline(b, resolution) ==
    LET geometry == PolygonOf(b)
    IN  [type          |-> "readers.ept",
         hasPolygon    |-> geometry # NoGeometry,
         polygon       |-> geometry,
         hasBounds     |-> FALSE,
         hasResolution |-> resolution # None /\ resolution # StrVal("full"),
         resolution    |-> resolution]

InitBoundary ==
    /\ MainIdle
    /\ ConfigIdle
    /\ YearIdle
    /\ ret = "running"
    /\ config \in {[resolution |-> r] : r \in {None, FloatVal(2)}}
    /\ boundary_geojson \in Boundaries
    /\ gdf = 0
    /\ pipeline = 0
    /\ pc = "boundary_to_gdf"

\* boundaries.py:139-143
BoundaryToGdf ==
    /\ pc = "boundary_to_gdf"
    /\ gdf' = boundary_to_gdf(boundary_geojson)
    /\ pc' = IF gdf'.ok THEN "intersects" ELSE "no_datasets"
    /\ UNCHANGED mainVarsButPc
    /\ UNCHANGED <<configFile, name, year, boundary_geojson, pipeline>>

\* boundaries.py:179-210: the catalog holds footprints the geometry
\* intersects, or none.
Intersects ==
    /\ pc = "intersects"
    /\ \E found \in BOOLEAN : pc' = IF found THEN "download_dataset" ELSE "no_datasets"
    /\ UNCHANGED mainVarsButPc
    /\ UNCHANGED unitVars

\* download.py:614-625
CreatePipeline ==
    /\ pc = "download_dataset"
    /\ pipeline' = create_pdal_pipeline(boundary_geojson, config["resolution"])
    /\ pc' = "run_pdal_pipeline"
    /\ UNCHANGED mainVarsButPc
    /\ UNCHANGED <<configFile, name, year, boundary_geojson, gdf>>

NextBoundary ==
    \/ BoundaryToGdf
    \/ Intersects
    \/ CreatePipeline

SpecBoundary == InitBoundary /\ [][NextBoundary]_vars

\* ------------------------------------------------------------ properties

Range(s) == {s[k] : k \in 1..Len(s)}
\* The dataset of the list with this id.
Ds(id) == CHOOSE d \in Range(datasets) : d.id = id
\* The year of a dataset, one without a year counting as 0.
Year0(d) == d.year
NewestYear == CHOOSE y \in {Year0(d) : d \in Range(datasets)} :
                 \A d \in Range(datasets) : Year0(d) <= y
\* The part of the boundary the datasets of these files cover.
CoveredBy(files) == UNION {Ds(p.ds).foot : p \in Range(files)}
\* main is past the download loop of a run that is not a dry run.
LoopDone ==
    \/ pc \in {"process", "write_info", "write_info_failed"}
    \/ pc = "done" /\ info_content # <<>>
DownloadedIds == {p.ds : p \in Range(downloaded_files)}

\* C1: with --most-recent, a dataset other than the newest is downloaded only
\* when the datasets downloaded before it leave a part of the boundary
\* uncovered.  The code decides by point counts instead, so this fails.
C1_OlderOnlyForGaps ==
    args.most_recent =>
        \A k \in 1..Len(calls) :
            Year0(Ds(calls[k].ds)) < NewestYear => CoveredBy(calls[k].before) # Cells

\* C2: without --most-recent, the run downloads every intersecting dataset
\* exactly once, in list order, each with the whole boundary, whatever the
\* earlier downloads returned.
C2_AllDatasetsOnce ==
    ~args.most_recent =>
        /\ \A k \in 1..Len(calls) :
              calls[k].ds = datasets[k].id /\ calls[k].boundary = Cells
        /\ LoopDone => Len(calls) = Len(datasets)

C2_Witness ==
    /\ ~args.most_recent
    /\ pc = "done"
    /\ Len(datasets) = 2
    /\ Len(calls) = 2
    /\ calls[2].before = <<>>
    /\ Len(downloaded_files) = 1

\* C3: the downloads of a run are made in non-increasing order of year, a
\* dataset without a year counting as 0, so the first is one of the newest.
\* A NaN year breaks the order of the sort, so this fails.
C3_NewestFirst ==
    /\ \A k \in 1..(Len(calls) - 1) :
          Year0(Ds(calls[k].ds)) >= Year0(Ds(calls[k + 1].ds))
    /\ calls # <<>> => Year0(Ds(calls[1].ds)) = NewestYear

\* C4: a run (not a dry run) that downloaded exactly one file, and in which
\* neither the copy nor the write of the info file was kept from working,
\* ends with the final file in place and returns 0.  With a single dataset and
\* no --most-recent the file is copied onto itself, which fails.
C4_SingleFileDelivered ==
    (/\ pc = "done"
     /\ Len(downloaded_files) = 1
     /\ faults \cap {"copy", "info"} = {})
    => (FinalPath \in DOMAIN fs /\ ret = "ret0")

\* C5: more than one downloaded file: one merge_laz_files call, of all the
\* files, into the final file, which then holds the data of each of them; when
\* the merge reports failure the temp directory stays, main returns 1, and the
\* info file, written unless that write fails itself, says
\* 'Failed to merge files'.
C5_MergeAllOrFail ==
    /\ Len(mergeCalls) <= 1
    /\ (Len(downloaded_files) > 1 /\ pc \in {"write_info", "write_info_failed", "done"})
          => mergeCalls = <<[inputs |-> downloaded_files, out |-> FinalPath]>>
    /\ (Len(downloaded_files) > 1 /\ pc \in {"write_info", "done"} /\ "merge" \notin faults)
          => (FinalPath \in DOMAIN fs /\ fs[FinalPath].src = DownloadedIds)
    /\ ("merge" \in faults /\ pc = "done")
          => /\ tempDir
             /\ ret = "ret1"
             /\ infoWritten \/ "info" \in faults
             /\ infoWritten => "Failed to merge files" \in Range(info_content)

C5_Witness ==
    /\ pc = "done"
    /\ "merge" \in faults
    /\ Len(mergeCalls[1].inputs) = 2
    /\ infoWritten
    /\ ~args.keep_temp

\* C6: a dry run makes no download call, no coverage map, no temp directory,
\* no info file and no LAZ file, and returns 0 once it has listed datasets.
C6_DryRunNoEffects ==
    args.dry_run =>
        /\ calls = <<>>
        /\ viz = "none"
        /\ ~tempDir
        /\ ~infoWritten
        /\ fs = NoFiles
        /\ (pc = "done" /\ datasets # <<>>) => ret = "ret0"

C6_Witness ==
    /\ args.dry_run
    /\ ~args.no_visualization
    /\ pc = "done"
    /\ Len(datasets) = 2
    /\ ret = "ret0"

\* Some step of main failed: one of the recorded failures, or the last pipeline.
SomeFailure == faults # {} \/ (last.ran /\ ~last.success)

\* C7 as stated: whatever step fails, main returns 1 and no exception escapes.
C7_EveryFailureReturns1 ==
    (pc = "done" /\ SomeFailure) => ret = "ret1"

\* C7 amended: a failure creating the output directories escapes main (the
\* mkdir calls stand before the try); a config file that cannot be read, a
\* failed dataset discovery and a failed download are handled where they
\* happen and leave the return value alone; main returns 1 exactly when
\* validate_config raised, or reading the boundary, the copy or merge, or
\* writing the info file failed.
C7_FailureHandling ==
    pc = "done" =>
        /\ (ret = "raised") = ("mkdir" \in faults)
        /\ (ret = "ret1") =
              (faults \cap {"validate", "boundary", "copy", "samefile", "merge", "info"}
                  # {})

C7_Witness ==
    /\ pc = "done"
    /\ ret = "ret0"
    /\ "config" \in faults
    /\ last.ran /\ ~last.success
    /\ Len(calls) = 2

\* C8: without --keep-temp no temp directory is left when main returns 0; with
\* it every downloaded file still exists when main returns.  The temp
\* directory stays when no download returned a file, so this fails.
C8_TempDirectory ==
    pc = "done" =>
        /\ (~args.keep_temp /\ ret = "ret0") => ~tempDir
        /\ args.keep_temp => \A p \in Range(downloaded_files) : p \in DOMAIN fs

\* C9: run_pdal_pipeline reports success only for an output of at least
\* min_points points, and download_dataset returns no file with fewer.
\* min_points is never read, so this fails.
C9_MinPointsEnforced ==
    last.ran =>
        /\ last.success => last.point_count >= config.min_points
        /\ last.point_count < config.min_points => ~last.returned

Positive(v) ==
    \/ v.k \in {"int", "float", "inf"} /\ v.n > 0
    \/ v.k = "bigint"
IsInteger(v) == v.k \in {"int", "bigint"}

\* C11: validate_config returns, and in what it returns tile_size is a number
\* above zero, resolution is None or a number above zero, download_workers is
\* an integer above zero and min_points an integer that is not negative.  A
\* NaN passes every range test, and OverflowError is not caught, so this fails.
C11_ValidatedConfig ==
    pc = "config_done" =>
        /\ ret = "returned"
        /\ Positive(config["tile_size"])
        /\ config["resolution"] = None \/ Positive(config["resolution"])
        /\ IsInteger(config["download_workers"]) /\ Positive(config["download_workers"])
        /\ IsInteger(config["min_points"]) /\ ~LtZero(config["min_points"])

\* What load_config is to return for a file: the defaults, with the settings
\* of a JSON object laid over them, validated.
ExpectedConfig(file) ==
    validate_config(
        IF file.kind = "object"
        THEN [key \in DOMAIN DEFAULT_CONFIG \cup DOMAIN file.obj |->
                 IF key \in DOMAIN file.obj THEN file.obj[key] ELSE DEFAULT_CONFIG[key]]
        ELSE DEFAULT_CONFIG)

\* C12: load_config returns the defaults overlaid with the settings of the
\* JSON object at the path, validated; a missing file is created with the
\* content of DEFAULT_CONFIG (unless it cannot be written) and the validated
\* defaults are returned; for an unreadable file the validated defaults are
\* returned; and a file that exists is never changed.
C12_LoadConfig ==
    /\ [](pc = "config_done" /\ configFile.kind # "scalar" =>
            /\ (ret = "raised") = ExpectedConfig(configFile).raised
            /\ ret = "returned" => config = ExpectedConfig(configFile).config)
    /\ [](pc \in {"config_validate", "config_done"} /\ configFile = Missing =>
            "config_write" \in faults)
    /\ [][configFile' # configFile =>
            configFile = Missing /\ configFile' = JsonFile(DEFAULT_CONFIG)]_vars

C12_Witness ==
    /\ pc = "config_done"
    /\ configFile.kind = "object"
    /\ DOMAIN configFile.obj = {"tile_size", "resolution"}
    /\ configFile.obj["tile_size"] = StrVal("5")
    /\ configFile.obj["resolution"] = StrVal("full")
    /\ config["tile_size"] = FloatVal(10)
    /\ config["resolution"] = None
    /\ config["min_points"] = IntVal(DefaultMinPoints)

\* The file load_config created.
C12_Created ==
    pc = "config_done" /\ configFile = JsonFile(DEFAULT_CONFIG)

\* C13: a coverage map that fails to render changes nothing else.  The step
\* that draws the map does to every other variable what WithoutVisualization
\* says, which reads neither the flag --no-visualization nor the outcome of
\* the rendering; no other step touches the map; and after a failed rendering
\* no exception leaves main and the downloads are made.
C13_VisualizationIsolated ==
    /\ [][pc = "sort" => WithoutVisualization]_vars
    /\ [][viz' # viz => pc = "sort"]_vars
    /\ [](viz = "failed" => /\ ret # "raised"
                            /\ LoopDone => calls # <<>>)

C13_Witness ==
    /\ viz = "failed"
    /\ pc = "done"
    /\ ret = "ret0"
    /\ Len(calls) = 2
    /\ FinalPath \in DOMAIN fs

\* A run of four digits at p, with no digit next to it, and its value.
StandsAlone(s, p) ==
    /\ p + 3 <= Len(s)
    /\ \A q \in p..(p + 3) : s[q] \in Digits
    /\ p = 1 \/ s[p - 1] \notin Digits
    /\ p + 3 = Len(s) \/ s[p + 4] \notin Digits
NumberAt(s, p) ==
    1000 * DigitValue(s[p]) + 100 * DigitValue(s[p + 1]) + 10 * DigitValue(s[p + 2])
    + DigitValue(s[p + 3])
IsYearAt(s, p) == StandsAlone(s, p) /\ NumberAt(s, p) \in FirstYear..LastYear

\* C14: extract_year returns the first four-digit number of the name that
\* stands alone and lies in FirstYear..LastYear, and None when there is none.
\* The pattern takes 2026 to 2029 for years as well, so this fails.
C14_YearInRange ==
    pc = "year_done" =>
        IF \E p \in 1..Len(name) : IsYearAt(name, p)
        THEN /\ year.found
             /\ \E p \in 1..Len(name) :
                   /\ IsYearAt(name, p)
                   /\ \A q \in 1..(p - 1) : ~IsYearAt(name, q)
                   /\ year.value = NumberAt(name, p)
        ELSE ~year.found

\* The most-recent loop is running or has just been left: no file has been
\* removed yet.
InOrAfterMRLoop == args.most_recent /\ pc \in {"mr_loop", "mr_wait", "process"}
Skipped == "skip" \in Range(info_content)

\* C15: in a --most-recent run a dataset other than the first is downloaded
\* exactly when no file was downloaded before it or the files downloaded
\* before it hold CoverageThreshold points or fewer; otherwise the loop is
\* left, and no download is made after the loop.
C15_SkipHeuristic ==
    /\ [](InOrAfterMRLoop =>
            /\ \A k \in 2..Len(calls) :
                  \/ calls[k].before = <<>>
                  \/ SumPoints(fs, calls[k].before) <= CoverageThreshold
            /\ Skipped =>
                  /\ pc = "process"
                  /\ Len(calls) < Len(datasets)
                  /\ downloaded_files # <<>>
                  /\ SumPoints(fs, downloaded_files) > CoverageThreshold
            /\ (pc = "process" /\ ~Skipped) => Len(calls) = Len(datasets))
    /\ [][pc \notin {"mr_loop", "all_loop"} => calls' = calls]_vars

C15_Witness ==
    /\ args.most_recent
    /\ pc = "process"
    /\ Skipped
    /\ Len(datasets) = 2
    /\ Len(calls) = 1
    /\ SumPoints(fs, downloaded_files) = CoverageThreshold + 1

\* C16: in a --most-recent run the boundary handed to the download of an
\* older dataset is the part of the input boundary that the datasets
\* downloaded before it do not cover.  remaining_boundary is never updated,
\* so this fails.
C16_GapBoundary ==
    args.most_recent =>
        \A k \in 2..Len(calls) :
            calls[k].boundary = Cells \ CoveredBy(calls[k].before)

\* C17: in a --most-recent run the datasets are attempted in list order, each
\* at most once; the newest is always attempted; a dataset is attempted
\* whenever none of the newer ones yielded a file; and the loop is left.
C17_AttemptsAndTermination ==
    /\ [](args.most_recent =>
            /\ Len(calls) <= Len(datasets)
            /\ \A k \in 1..Len(calls) : calls[k].ds = datasets[k].id
            /\ LoopDone =>
                  /\ Len(calls) >= 1
                  /\ \A k \in 1..Len(datasets) :
                        DownloadedIds \cap {datasets[j].id : j \in 1..(k - 1)} = {}
                            => k <= Len(calls))
    /\ (args.most_recent /\ pc = "mr_loop") ~> (pc = "process")

C17_Witness ==
    /\ args.most_recent
    /\ pc = "process"
    /\ Len(datasets) = 2
    /\ Len(calls) = 2
    /\ calls[2].before = <<>>
    /\ last.ran /\ last.returned
    /\ Len(downloaded_files) = 1

\* C18: every pipeline download_dataset builds for a boundary that
\* boundary_to_gdf accepted restricts its reader to the geometry used for the
\* intersection test.  For a LineString or a Point type standing alone the
\* reader gets neither 'polygon' nor 'bounds', so this fails.
C18_ReaderRestricted ==
    pc = "run_pdal_pipeline" =>
        /\ pipeline.hasPolygon
        /\ pipeline.polygon = gdf.geom

====
